---- MODULE Spec2Model ----
(***************************************************************************)
(* Model of src/render.ts: the assembly of the syntax tree of a yargs      *)
(* command-line entry point.  Syntax nodes are records tagged by `kind`;   *)
(* JavaScript option values are the strings "true", "false", "undefined",  *)
(* a library or function name, and "absent" for a key the object lacks.    *)
(***************************************************************************)
EXTENDS Naturals, Sequences, FiniteSets, TLC

VARIABLES
  entry,      \* the exported function the caller invokes
  pc,         \* "start" before the first invocation, "returned" after one
  build,      \* what the build makes of spreading a non-iterable object
  calls,      \* generateCallableChain: the caller's array of standalone calls
  expr,       \* generateCallableChain: the base expression
  callsIn,    \* the contents of `calls` when the last invocation began
  chain,      \* the expression generateCallableChain returned
  options,    \* render: the caller's options object
  optionsIn,  \* the contents of `options` when the last invocation began
  DEFAULT_RENDER_OPTIONS, \* the module-level defaults object
  context,    \* render, makeWrapper, makeCliCallNode: [stdin, hasArgs, args]
  result,     \* the TransformResult
  entryStatements, \* the statements of the entry source file
  cliName,    \* makeCliCallNode: its `name` argument
  opts,       \* render: the merged options (line 32)
  links,      \* render: acc as handed to generateCallableChain (line 43)
  out         \* what the invoked function did: [status], or [status, value] once it returned

vars == << entry, pc, build, calls, expr, callsIn, chain, options, optionsIn,
           DEFAULT_RENDER_OPTIONS, context, result, entryStatements, cliName, opts,
           links, out >>

----------------------------------------------------------------------------
(* Bounds of the model *)

MaxCalls == 3
MaxPositionals == 2
MaxOptions == 1
MaxArgs == 2
MaxRefs == 1
MaxStatements == 1

----------------------------------------------------------------------------
(* Syntax nodes, as the TypeScript factory functions used by render.ts     *)
(* build them.  An `undefined` node list (type arguments) is <<>>.         *)

createIdentifier(text) == [kind |-> "Identifier", text |-> text]

createStringLiteral(text) == [kind |-> "StringLiteral", text |-> text]

createCall(expression, typeArguments, argumentsArray) ==
  [kind |-> "CallExpression", expression |-> expression,
   typeArguments |-> typeArguments, arguments |-> argumentsArray]

\* The factory stores `name` as given: it does not check that it is an Identifier.
createPropertyAccess(expression, name) ==
  [kind |-> "PropertyAccessExpression", expression |-> expression, name |-> name]

createArrayLiteral(elements) ==
  [kind |-> "ArrayLiteralExpression", elements |-> elements]

----------------------------------------------------------------------------
(* The chain builder *)

\* Array.prototype.reverse: the contents of the array after it reversed itself in place.
reverse(s) == [i \in 1..Len(s) |-> s[Len(s) + 1 - i]]

replaceCallableProperty(call, e) ==
  createCall(createPropertyAccess(e, call.expression),
             call.typeArguments, call.arguments)

\* The closure reduce has built after folding the elements rs of the reversed
\* array, applied to a: the initial closure returns a, and each step builds
\* expr => replaceCallableProperty(acc(call), expr).
RECURSIVE reduceApply(_, _)
reduceApply(rs, a) ==
  IF rs = <<>> THEN a
  ELSE replaceCallableProperty(reduceApply(SubSeq(rs, 1, Len(rs) - 1), rs[Len(rs)]), a)

generateCallableChainUnreversed(cs, e) == reduceApply(cs, e)

generateCallableChain(cs, e) == reduceApply(reverse(cs), e)

----------------------------------------------------------------------------
(* Outcomes of an invocation *)

NotCalled == [status |-> "none"]

Returned(v) == [status |-> "returned", value |-> v]

Threw == [status |-> "threw"]

----------------------------------------------------------------------------
(* Options *)

CLI_LIB_NAME == "yargs"

FUNCTION_NAME == "cli"

RenderOptionKeys ==
  {"lib", "functionName", "strict", "help", "helpAlias", "version",
   "asyncFunction", "runnable"}

DefaultsAtLoad ==
  [lib |-> CLI_LIB_NAME, functionName |-> FUNCTION_NAME, strict |-> "true",
   help |-> "true", helpAlias |-> "true", version |-> "true",
   asyncFunction |-> "false", runnable |-> "false"]

\* JavaScript truthiness of an option value.
Truthy(v) == v \notin {"false", "undefined", "absent", ""}

defaultsSourceWins(object, source) ==
  [k \in RenderOptionKeys |-> source[k]]

\* lodash defaults(object, source): assigns to `object` every key of `source`
\* that `object` lacks or holds as undefined, and returns `object` itself.
defaults(object, source) ==
  [k \in RenderOptionKeys |->
     IF object[k] \in {"absent", "undefined"} THEN source[k] ELSE object[k]]

----------------------------------------------------------------------------
(* The command node *)

RECURSIVE join(_, _)
join(words, sep) ==
  IF words = <<>> THEN ""
  ELSE IF Len(words) = 1 THEN words[1]
  ELSE words[1] \o sep \o join(Tail(words), sep)

makePositionalCommandString(r) ==
  createStringLiteral(
    join(<<"$0">>
         \o [i \in 1..Len(r.positionals) |-> "<" \o r.positionals[i][1] \o ">"]
         \o (IF Len(r.options) # 0 THEN <<"[...options]">> ELSE <<>>),
         " "))

createParameter(name, type, initializer) ==
  [kind |-> "Parameter", name |-> name, type |-> type, initializer |-> initializer]

createBlock(statements, multiLine) ==
  [kind |-> "Block", statements |-> statements, multiLine |-> multiLine]

createArrowFunction(parameters, body) ==
  [kind |-> "ArrowFunction", parameters |-> parameters, body |-> body]

createReturn(expression) == [kind |-> "ReturnStatement", expression |-> expression]

createExpressionStatement(expression) ==
  [kind |-> "ExpressionStatement", expression |-> expression]

createBindingElement(dotDotDotToken, name) ==
  [kind |-> "BindingElement", dotDotDotToken |-> dotDotDotToken, name |-> name]

createVariableStatement(flags, name, initializer) ==
  [kind |-> "VariableStatement", flags |-> flags,
   declarations |-> << [kind |-> "VariableDeclaration", name |-> name,
                        initializer |-> initializer] >>]

createObjectBindingPattern(elements) ==
  [kind |-> "ObjectBindingPattern", elements |-> elements]

definitionCalls(r) ==
  [i \in 1..Len(r.positionals) |-> r.positionals[i][2]]
  \o [i \in 1..Len(r.options) |-> r.options[i][2]]

makeBuilder(r) ==
  createArrowFunction(
    << createParameter(createIdentifier("yargs"), <<>>, <<>>) >>,
    createBlock(
      << createReturn(generateCallableChain(definitionCalls(r), createIdentifier("yargs"))) >>,
      TRUE))

makeArrowFunctionNode(iden, body) ==
  createArrowFunction(
    << createParameter(createIdentifier(iden), <<>>, <<>>) >>,
    createBlock(body, FALSE))

makePositionalBindingNodes(r) ==
  [i \in 1..Len(r.positionals) |->
     createBindingElement(FALSE, createIdentifier(r.positionals[i][1]))]

makePositionalIdentifierNodes(r) ==
  [i \in 1..Len(r.positionals) |-> createIdentifier(r.positionals[i][1])]

makeDeconstructNodeAlwaysRest(r) ==
  createVariableStatement(
    "Const",
    createObjectBindingPattern(
      << createBindingElement(FALSE, createIdentifier("_")),
         createBindingElement(FALSE, createIdentifier("$0")) >>
      \o makePositionalBindingNodes(r)
      \o << createBindingElement(TRUE, createIdentifier("options")) >>),
    createIdentifier("args"))

makeDeconstructNode(r) ==
  createVariableStatement(
    "Const",
    createObjectBindingPattern(
      << createBindingElement(FALSE, createIdentifier("_")),
         createBindingElement(FALSE, createIdentifier("$0")) >>
      \o makePositionalBindingNodes(r)
      \o (IF Len(r.options) # 0
          THEN << createBindingElement(TRUE, createIdentifier("options")) >>
          ELSE <<>>)),
    createIdentifier("args"))

makeCommandApplyNode(r) ==
  createExpressionStatement(
    createCall(createIdentifier(r.name), <<>>,
               makePositionalIdentifierNodes(r)
               \o (IF Len(r.options) # 0 THEN << createIdentifier("options") >> ELSE <<>>)))

makeHandler(r) ==
  makeArrowFunctionNode("args", << makeDeconstructNode(r), makeCommandApplyNode(r) >>)

makeCommandNode(r) ==
  createCall(createIdentifier("command"), <<>>,
             << makePositionalCommandString(r), r.description,
                makeBuilder(r), makeHandler(r) >>)

----------------------------------------------------------------------------
(* The wrapper *)

\* What the build makes of [...node] for a syntax node, which is not iterable:
\* the language's spread raises a TypeError, an array-copy helper that reads
\* node.length yields no elements, and a helper that concatenates what it
\* cannot iterate yields the node itself.
SpreadOutcomes == {"TypeError", "empty", "single"}

makeCliCallNode(name, ctx, b) ==
  IF ctx.hasArgs
  THEN LET literal ==
             createArrayLiteral([i \in 1..Len(ctx.args) |-> createStringLiteral(ctx.args[i])])
       IN  CASE b = "TypeError" -> Threw
             [] b = "empty" -> Returned(createCall(createIdentifier(name), <<>>, <<>>))
             [] b = "single" -> Returned(createCall(createIdentifier(name), <<>>, << literal >>))
  ELSE Returned(createCall(createIdentifier(name), <<>>, <<>>))

\* require.resolve(path): the absolute path of the module.
requireResolve(path) == "/node_modules/" \o path \o "/index.js"

makeLibImportDeclarationNode(exporter, path, ctx) ==
  [kind |-> "ImportDeclaration",
   importClause |->
     [kind |-> "ImportClause", name |-> <<>>,
      namedBindings |-> [kind |-> "NamespaceImport", name |-> createIdentifier(exporter)]],
   moduleSpecifier |->
     createStringLiteral(IF ctx.stdin THEN requireResolve(path) ELSE path)]

\* outputSourceFile.getRelativePathAsModuleSpecifierTo(sourceFile)
getRelativePathAsModuleSpecifierTo(sourceFile) == "./" \o sourceFile

makeRefImportDeclarationNode(r) ==
  [i \in 1..Len(r.ref) |->
     [kind |-> "ImportDeclaration",
      importClause |->
        [kind |-> "ImportClause",
         name |-> IF Len(r.ref[i].default) = 0 THEN <<>>
                  ELSE << createIdentifier(r.ref[i].default[1]) >>,
         namedBindings |->
           [kind |-> "NamedImports",
            elements |-> [j \in 1..Len(r.ref[i].named) |->
                            [kind |-> "ImportSpecifier",
                             name |-> createIdentifier(r.ref[i].named[j])]]]],
      moduleSpecifier |->
        createStringLiteral(getRelativePathAsModuleSpecifierTo(r.ref[i].sourceFile))]]

makeWrapperFunctionDeclaration(body, o) ==
  [kind |-> "FunctionDeclaration",
   modifiers |-> << "export", "default" >>
                 \o (IF Truthy(o.asyncFunction) THEN << "async" >> ELSE <<>>),
   name |-> createIdentifier(o.functionName),
   parameters |->
     << createParameter(
          createIdentifier("args"),
          << [kind |-> "ArrayType", elementType |-> "string"] >>,
          << createCall(
               createPropertyAccess(
                 createPropertyAccess(createIdentifier("process"), createIdentifier("argv")),
                 createIdentifier("slice")),
               <<>>,
               << [kind |-> "NumericLiteral", text |-> "2"] >>) >>) >>,
   type |-> IF Truthy(o.asyncFunction) THEN "Promise<void>" ELSE "void",
   body |-> createBlock(body, TRUE)]

\* makeWrapper(body, {outputSourceFile, entrySourceFile, result, context, options})
makeWrapper(body, o, ctx, r, stmts, b) ==
  LET head == << makeLibImportDeclarationNode("yargs", "yargs", ctx) >>
              \o (IF ctx.stdin THEN stmts ELSE makeRefImportDeclarationNode(r))
              \o << makeWrapperFunctionDeclaration(body, o) >>
      call == makeCliCallNode(o.functionName, ctx, b)
  IN  IF Truthy(o.runnable) \/ ctx.stdin
      THEN IF call.status = "threw" THEN Threw
           ELSE Returned(head \o << call.value >>)
      ELSE Returned(head)

----------------------------------------------------------------------------
(* render *)

renderLinksParseFirst(o, r) ==
  << createCall(createIdentifier("parse"), <<>>, << createIdentifier("args") >>) >>
  \o (IF Truthy(o.strict) THEN << createCall(createIdentifier("strict"), <<>>, <<>>) >> ELSE <<>>)
  \o << makeCommandNode(r) >>
  \o (IF Truthy(o.help) THEN << createCall(createIdentifier("help"), <<>>, <<>>) >> ELSE <<>>)
  \o (IF Truthy(o.helpAlias)
      THEN << createCall(createIdentifier("alias"), <<>>,
                         << createStringLiteral("help"), createStringLiteral("h") >>) >>
      ELSE <<>>)
  \o (IF Truthy(o.version) THEN << createCall(createIdentifier("version"), <<>>, <<>>) >> ELSE <<>>)

\* acc after line 41 of render
renderLinks(o, r) ==
  (IF Truthy(o.strict) THEN << createCall(createIdentifier("strict"), <<>>, <<>>) >> ELSE <<>>)
  \o << makeCommandNode(r) >>
  \o (IF Truthy(o.help) THEN << createCall(createIdentifier("help"), <<>>, <<>>) >> ELSE <<>>)
  \o (IF Truthy(o.helpAlias)
      THEN << createCall(createIdentifier("alias"), <<>>,
                         << createStringLiteral("help"), createStringLiteral("h") >>) >>
      ELSE <<>>)
  \o (IF Truthy(o.version) THEN << createCall(createIdentifier("version"), <<>>, <<>>) >> ELSE <<>>)
  \o << createCall(createIdentifier("parse"), <<>>, << createIdentifier("args") >>) >>

----------------------------------------------------------------------------
(* Inputs *)

SeqsUpTo(S, n) == UNION { [1..k -> S] : k \in 0..n }

Prefixes(pool, n) == { SubSeq(pool, 1, k) : k \in 0..n }

\* Standalone calls: no arguments, two arguments, a type argument, and one
\* whose callee is a property access instead of a bare identifier.
CallPool ==
  { createCall(createIdentifier("strict"), <<>>, <<>>),
    createCall(createIdentifier("alias"), <<>>,
               << createStringLiteral("help"), createStringLiteral("h") >>),
    createCall(createIdentifier("option"), << [kind |-> "TypeReference", text |-> "T"] >>,
               << createStringLiteral("x") >>),
    createCall(createPropertyAccess(createIdentifier("o"), createIdentifier("m")), <<>>, <<>>) }

Bases ==
  { createIdentifier("yargs"),
    createCall(createIdentifier("require"), <<>>, << createStringLiteral("yargs") >>) }

PositionalNames == << "file", "out", "mode", "depth" >>

OptionNames == << "verbose", "force", "color" >>

ArgPool == << "a", "b", "c", "d" >>

SourceFiles == << "lib", "util", "core" >>

StatementPool == << "function fn() {}", "const k = 1", "fn()" >>

positionalsOf(n) ==
  [i \in 1..n |->
     << PositionalNames[i],
        createCall(createIdentifier("positional"), <<>>,
                   << createStringLiteral(PositionalNames[i]) >>) >>]

optionsOf(n) ==
  [i \in 1..n |->
     << OptionNames[i],
        createCall(createIdentifier("option"), <<>>,
                   << createStringLiteral(OptionNames[i]) >>) >>]

RefEntries(file) ==
  { [sourceFile |-> file, default |-> d, named |-> nm] :
      d \in { <<>>, << "fn" >> }, nm \in { <<>>, << "helper" >> } }

Refs(n) ==
  UNION { { f \in [1..k -> UNION { RefEntries(SourceFiles[i]) : i \in 1..k }] :
              \A i \in 1..k : f[i].sourceFile = SourceFiles[i] } : k \in 0..n }

TransformResults(refs) ==
  { [name |-> "fn", description |-> createStringLiteral("desc"),
     positionals |-> positionalsOf(p), options |-> optionsOf(q), ref |-> rf] :
      p \in 0..MaxPositionals, q \in 0..MaxOptions, rf \in refs }

NoResult == CHOOSE r \in TransformResults({ <<>> }) :
              r.positionals = <<>> /\ r.options = <<>>

Contexts ==
  { [stdin |-> sd, hasArgs |-> FALSE, args |-> <<>>] : sd \in BOOLEAN }
  \cup { [stdin |-> sd, hasArgs |-> TRUE, args |-> a] :
           sd \in BOOLEAN, a \in Prefixes(ArgPool, MaxArgs) }

NoContext == [stdin |-> FALSE, hasArgs |-> FALSE, args |-> <<>>]

EntryStatementLists ==
  { [i \in 1..k |-> [kind |-> "Statement", text |-> StatementPool[i]]] :
      k \in 0..MaxStatements }

EmptyObject == [k \in RenderOptionKeys |-> "absent"]

\* Partial<RenderOptions> objects a caller of render may pass.
CallerOptions ==
  { [lib |-> l, functionName |-> "absent", strict |-> s, help |-> h,
     helpAlias |-> ha, version |-> v, asyncFunction |-> af, runnable |-> ru] :
      l \in {"absent", "commander"},
      s \in {"absent", "undefined", "true", "false"},
      h \in {"absent", "true", "false"},
      ha \in {"absent", "true", "false"},
      v \in {"absent", "true", "false"},
      af \in {"absent", "true"},
      ru \in {"absent", "true"} }

\* Complete RenderOptions objects a caller of makeWrapper may pass.
MergedOptions ==
  { [DefaultsAtLoad EXCEPT !.functionName = fname, !.asyncFunction = af, !.runnable = ru] :
      fname \in {FUNCTION_NAME, "main"}, af \in {"true", "false"}, ru \in {"true", "false"} }

WrapperBody == << createExpressionStatement(createIdentifier("body")) >>

----------------------------------------------------------------------------
(* The state after the module is loaded, with the arguments of the          *)
(* invocation under study in place                                         *)

Idle ==
  /\ pc = "start"
  /\ build \in SpreadOutcomes
  /\ callsIn = <<>>
  /\ chain = NotCalled
  /\ optionsIn = EmptyObject
  /\ DEFAULT_RENDER_OPTIONS = DefaultsAtLoad
  /\ opts = EmptyObject
  /\ links = <<>>
  /\ out = NotCalled

InitChain ==
  /\ entry = "generateCallableChain"
  /\ calls \in SeqsUpTo(CallPool, MaxCalls)
  /\ expr \in Bases
  /\ options = EmptyObject
  /\ context = NoContext
  /\ result = NoResult
  /\ entryStatements = <<>>
  /\ cliName = FUNCTION_NAME

InitRender ==
  /\ entry = "render"
  /\ calls = <<>>
  /\ expr = createIdentifier(CLI_LIB_NAME)
  /\ options \in CallerOptions
  /\ context \in { c \in Contexts : c.hasArgs => Len(c.args) = MaxArgs }
  /\ result \in { r \in TransformResults(Refs(1)) :
                    /\ Len(r.positionals) \in {0, MaxPositionals}
                    /\ Len(r.options) = MaxOptions
                    /\ Len(r.ref) = 1 /\ r.ref[1].default # <<>> /\ r.ref[1].named = <<>> }
  /\ entryStatements \in { e \in EntryStatementLists : Len(e) = MaxStatements }
  /\ cliName = FUNCTION_NAME

InitWrapper ==
  /\ entry = "makeWrapper"
  /\ calls = <<>>
  /\ expr = createIdentifier(CLI_LIB_NAME)
  /\ options \in MergedOptions
  /\ context \in Contexts
  /\ result \in { r \in TransformResults(Refs(MaxRefs)) :
                    r.positionals = <<>> /\ r.options = <<>> }
  /\ entryStatements \in EntryStatementLists
  /\ cliName = FUNCTION_NAME

InitCliCall ==
  /\ entry = "makeCliCallNode"
  /\ calls = <<>>
  /\ expr = createIdentifier(CLI_LIB_NAME)
  /\ options = EmptyObject
  /\ context \in { c \in Contexts : ~c.stdin }
  /\ result = NoResult
  /\ entryStatements = <<>>
  /\ cliName \in {FUNCTION_NAME, "main"}

InitHandler ==
  /\ entry = "makeHandler"
  /\ calls = <<>>
  /\ expr = createIdentifier(CLI_LIB_NAME)
  /\ options = EmptyObject
  /\ context = NoContext
  /\ result \in TransformResults({ <<>> })
  /\ entryStatements = <<>>
  /\ cliName = FUNCTION_NAME

Init ==
  /\ Idle
  /\ \/ InitChain
     \/ InitRender
     \/ InitWrapper
     \/ InitCliCall
     \/ InitHandler

----------------------------------------------------------------------------
(* One action per exported function; each is the whole invocation *)

CallGenerateCallableChain ==
  /\ entry = "generateCallableChain"
  /\ callsIn' = calls
  /\ calls' = reverse(calls)
  /\ chain' = Returned(generateCallableChain(calls, expr))
  /\ out' = chain'
  /\ pc' = "returned"
  /\ UNCHANGED << entry, build, expr, options, optionsIn, DEFAULT_RENDER_OPTIONS,
                  context, result, entryStatements, cliName, opts, links >>

CallRender ==
  /\ entry = "render"
  /\ LET merged == defaults(options, DEFAULT_RENDER_OPTIONS)
         acc == renderLinks(merged, result)
         callableChainNodes == generateCallableChain(acc, createIdentifier(merged.lib))
         yargsNode == createExpressionStatement(callableChainNodes)
     IN  /\ optionsIn' = options
         /\ options' = merged
         /\ opts' = merged
         /\ links' = acc
         /\ chain' = Returned(callableChainNodes)
         /\ out' = makeWrapper(<< yargsNode >>, merged, context, result,
                               entryStatements, build)
  /\ pc' = "returned"
  /\ UNCHANGED << entry, build, calls, expr, callsIn, DEFAULT_RENDER_OPTIONS,
                  context, result, entryStatements, cliName >>

CallMakeWrapper ==
  /\ entry = "makeWrapper"
  /\ out' = makeWrapper(WrapperBody, options, context, result, entryStatements, build)
  /\ pc' = "returned"
  /\ UNCHANGED << entry, build, calls, expr, callsIn, chain, options, optionsIn,
                  DEFAULT_RENDER_OPTIONS, context, result, entryStatements, cliName,
                  opts, links >>

CallMakeCliCallNode ==
  /\ entry = "makeCliCallNode"
  /\ out' = makeCliCallNode(cliName, context, build)
  /\ pc' = "returned"
  /\ UNCHANGED << entry, build, calls, expr, callsIn, chain, options, optionsIn,
                  DEFAULT_RENDER_OPTIONS, context, result, entryStatements, cliName,
                  opts, links >>

CallMakeHandler ==
  /\ entry = "makeHandler"
  /\ out' = Returned(makeHandler(result))
  /\ pc' = "returned"
  /\ UNCHANGED << entry, build, calls, expr, callsIn, chain, options, optionsIn,
                  DEFAULT_RENDER_OPTIONS, context, result, entryStatements, cliName,
                  opts, links >>

Next ==
  \/ CallGenerateCallableChain
  \/ CallRender
  \/ CallMakeWrapper
  \/ CallMakeCliCallNode
  \/ CallMakeHandler

Spec == Init /\ [][Next]_vars

----------------------------------------------------------------------------
(* The printed form of an expression, as a sequence of tokens: a property  *)
(* access prints its expression, a dot, and whatever node its name holds.  *)

RECURSIVE Text(_), TextOfList(_)
Text(n) ==
  CASE n.kind = "Identifier" -> << n.text >>
    [] n.kind = "TypeReference" -> << n.text >>
    [] n.kind = "StringLiteral" -> << "\"" \o n.text \o "\"" >>
    [] n.kind = "CallExpression" ->
         Text(n.expression)
         \o (IF n.typeArguments = <<>> THEN <<>>
             ELSE << "<" >> \o TextOfList(n.typeArguments) \o << ">" >>)
         \o << "(" >> \o TextOfList(n.arguments) \o << ")" >>
    [] n.kind = "PropertyAccessExpression" ->
         Text(n.expression) \o << "." >> \o Text(n.name)
    [] OTHER -> << n.kind >>

TextOfList(ns) ==
  IF ns = <<>> THEN <<>>
  ELSE IF Len(ns) = 1 THEN Text(ns[1])
  ELSE Text(ns[1]) \o << "," >> \o TextOfList(Tail(ns))

\* B.C1.C2...Cn, each link printed from the standalone call it came from.
RECURSIVE ChainText(_, _)
ChainText(base, cs) ==
  IF cs = <<>> THEN Text(base)
  ELSE ChainText(base, SubSeq(cs, 1, Len(cs) - 1)) \o << "." >> \o Text(cs[Len(cs)])

BareCallee(call) == call.expression.kind = "Identifier"

AllBare(cs) == \A i \in 1..Len(cs) : BareCallee(cs[i])

ChainReturned == entry = "generateCallableChain" /\ pc = "returned"

\* C1: for calls with bare callees, the printed chain is the base followed by
\* the links in input order, each with its own type arguments and arguments,
\* and with no calls the result is the base itself.
C1_ChainOrderPreserved ==
  (ChainReturned /\ AllBare(callsIn)) =>
     /\ Text(chain.value) = ChainText(expr, callsIn)
     /\ (callsIn = <<>> => chain.value = expr)

C1_Witness ==
  /\ ChainReturned
  /\ AllBare(callsIn)
  /\ Len(callsIn) = 3
  /\ \A i, j \in 1..3 : i # j => callsIn[i] # callsIn[j]
  /\ callsIn[3].typeArguments # <<>>

----------------------------------------------------------------------------
(* The iterative accumulation the fold is compared with *)

attach(e, call) ==
  createCall(createPropertyAccess(e, call.expression),
             call.typeArguments, call.arguments)

RECURSIVE accumulate(_, _)
accumulate(t, cs) ==
  IF cs = <<>> THEN t ELSE accumulate(attach(t, cs[1]), Tail(cs))

\* C9: for calls with bare callees, the chain returned is the tree
\* T0 = base, Ti = attach(T(i-1), Ci), in which every property access is
\* named by an identifier.
C9_FoldEqualsIteration ==
  (ChainReturned /\ AllBare(callsIn)) => chain.value = accumulate(expr, callsIn)

\* C7: given a call whose callee is not a bare identifier, the chain builder
\* fails and returns no chain.
C7_NonIdentifierCalleeFails ==
  (ChainReturned /\ ~AllBare(callsIn)) => out.status = "threw"

----------------------------------------------------------------------------
(* render *)

RenderReturned == entry = "render" /\ pc = "returned"

LinkOrder == << "strict", "command", "help", "alias", "version", "parse" >>

Included(o, link) ==
  CASE link = "strict" -> o.strict = "true"
    [] link = "help" -> o.help = "true"
    [] link = "alias" -> o.helpAlias = "true"
    [] link = "version" -> o.version = "true"
    [] OTHER -> TRUE

RECURSIVE Subsequence(_, _)
Subsequence(o, order) ==
  IF order = <<>> THEN <<>>
  ELSE (IF Included(o, order[1]) THEN << order[1] >> ELSE <<>>)
       \o Subsequence(o, Tail(order))

LinkNames(ls) == [i \in 1..Len(ls) |-> ls[i].expression.text]

\* C2: the links render builds are strict, command, help, alias("help","h"),
\* version, parse(args) without exactly those whose flag is false; command
\* is always there and parse(args) is the last link of the chain.
C2_LinksFollowFlags ==
  RenderReturned =>
    /\ AllBare(links)
    /\ LinkNames(links) = Subsequence(opts, LinkOrder)
    /\ \E i \in 1..Len(links) : links[i] = makeCommandNode(result)
    /\ \A i \in 1..Len(links) :
         links[i].expression.text = "alias" =>
           links[i].arguments = << createStringLiteral("help"), createStringLiteral("h") >>
    /\ links[Len(links)].arguments = << createIdentifier("args") >>
    /\ Text(chain.value) = ChainText(createIdentifier(opts.lib), links)
    /\ LET text == Text(chain.value)
       IN  SubSeq(text, Len(text) - 4, Len(text)) = << ".", "parse", "(", "args", ")" >>

C2_Witness ==
  /\ RenderReturned
  /\ opts.strict = "false" /\ opts.help = "true"
  /\ opts.helpAlias = "false" /\ opts.version = "true"
  /\ LinkNames(links) = << "command", "help", "version", "parse" >>

\* C5: the options render uses are the caller's fields where the caller set
\* them and the defaults elsewhere; with no override strict, help, helpAlias
\* and version are on and asyncFunction and runnable are off, and overriding
\* only asyncFunction leaves the rest at their defaults.
C5_DefaultMerging ==
  RenderReturned =>
    LET expected ==
          [lib |-> "yargs", functionName |-> "cli", strict |-> "true",
           help |-> "true", helpAlias |-> "true", version |-> "true",
           asyncFunction |-> "false", runnable |-> "false"]
        unset(k) == optionsIn[k] \in {"absent", "undefined"}
    IN  /\ \A k \in RenderOptionKeys :
             opts[k] = IF unset(k) THEN expected[k] ELSE optionsIn[k]
        /\ (\A k \in RenderOptionKeys : unset(k)) => opts = expected
        /\ (optionsIn = [EmptyObject EXCEPT !.asyncFunction = "true"]) =>
             opts = [expected EXCEPT !.asyncFunction = "true"]

C5_Witness ==
  /\ RenderReturned
  /\ optionsIn = [EmptyObject EXCEPT !.asyncFunction = "true", !.strict = "false",
                                     !.help = "absent"]
  /\ opts.asyncFunction = "true" /\ opts.strict = "false" /\ opts.help = "true"

\* C8: no component changes its inputs: after generateCallableChain the calls
\* array holds what it held before, and after render the caller's options
\* object and DEFAULT_RENDER_OPTIONS hold what they held before.
C8_InputsUnchanged ==
  /\ ChainReturned => calls = callsIn
  /\ RenderReturned => (options = optionsIn /\ DEFAULT_RENDER_OPTIONS = DefaultsAtLoad)

RECURSIVE Root(_)
Root(n) ==
  IF n.kind \in {"CallExpression", "PropertyAccessExpression"} THEN Root(n.expression)
  ELSE n

\* C10: the identifier at the root of the chain statement in the wrapper
\* body is the alias the library import binds.
C10_ChainRootIsImportedAlias ==
  (RenderReturned /\ out.status = "returned") =>
    LET nodes == out.value
        wrapper == CHOOSE d \in { nodes[i] : i \in 1..Len(nodes) } :
                     d.kind = "FunctionDeclaration"
    IN  Root(wrapper.body.statements[1].expression)
          = nodes[1].importClause.namedBindings.name

----------------------------------------------------------------------------
(* makeHandler *)

HandlerReturned == entry = "makeHandler" /\ pc = "returned"

PositionalNamesOf(r) == [i \in 1..Len(r.positionals) |-> r.positionals[i][1]]

\* C4: the handler takes `args` and has exactly two statements: a
\* destructuring of args binding _, $0, the positionals in declared order
\* and a rest element options exactly when an option exists; then a call of
\* result.name with the positionals in declared order followed by options
\* exactly when an option exists.
C4_HandlerShape ==
  HandlerReturned =>
    LET handler == out.value
        stmts == handler.body.statements
        pattern == stmts[1].declarations[1].name
        bound == [i \in 1..Len(pattern.elements) |-> pattern.elements[i].name.text]
        rest == { i \in 1..Len(pattern.elements) : pattern.elements[i].dotDotDotToken }
        call == stmts[2].expression
        hasOptions == result.options # <<>>
        tail == IF hasOptions THEN << "options" >> ELSE <<>>
    IN  /\ handler.kind = "ArrowFunction"
        /\ Len(handler.parameters) = 1
        /\ handler.parameters[1].name = createIdentifier("args")
        /\ Len(stmts) = 2
        /\ stmts[1].kind = "VariableStatement"
        /\ Len(stmts[1].declarations) = 1
        /\ stmts[1].declarations[1].initializer = createIdentifier("args")
        /\ pattern.kind = "ObjectBindingPattern"
        /\ bound = << "_", "$0" >> \o PositionalNamesOf(result) \o tail
        /\ rest = (IF hasOptions THEN { Len(pattern.elements) } ELSE {})
        /\ stmts[2].kind = "ExpressionStatement"
        /\ call.kind = "CallExpression"
        /\ call.expression = createIdentifier(result.name)
        /\ call.arguments =
             [i \in 1..Len(PositionalNamesOf(result) \o tail) |->
                createIdentifier((PositionalNamesOf(result) \o tail)[i])]

C4_Witness ==
  /\ HandlerReturned
  /\ Len(result.positionals) = 2
  /\ result.options = <<>>
  /\ Len(out.value.body.statements[1].declarations[1].name.elements) = 4
  /\ Len(out.value.body.statements[2].expression.arguments) = 2

----------------------------------------------------------------------------
(* makeWrapper and makeCliCallNode *)

WrapperReturned == entry = "makeWrapper" /\ pc = "returned"

\* C3: makeWrapper returns the library import, then the entry file's
\* statements unchanged and in order (stdin) or one import per source file
\* of result.ref, then the wrapper function declaration, then one call of
\* the wrapper function exactly when runnable or stdin holds.
C3_WrapperNodeOrder ==
  WrapperReturned =>
    /\ out.status = "returned"
    /\ LET nodes == out.value
           middle == IF context.stdin THEN Len(entryStatements) ELSE Len(result.ref)
           invoked == options.runnable = "true" \/ context.stdin
       IN  /\ Len(nodes) = middle + 2 + (IF invoked THEN 1 ELSE 0)
           /\ nodes[1].kind = "ImportDeclaration"
           /\ nodes[1].importClause.namedBindings.kind = "NamespaceImport"
           /\ context.stdin => SubSeq(nodes, 2, middle + 1) = entryStatements
           /\ ~context.stdin =>
                \A i \in 1..middle :
                  /\ nodes[i + 1].kind = "ImportDeclaration"
                  /\ nodes[i + 1].moduleSpecifier.text = "./" \o result.ref[i].sourceFile
           /\ nodes[middle + 2].kind = "FunctionDeclaration"
           /\ nodes[middle + 2].name = createIdentifier(options.functionName)
           /\ invoked =>
                /\ nodes[middle + 3].kind = "CallExpression"
                /\ nodes[middle + 3].expression = createIdentifier(options.functionName)

CliCallReturned == entry = "makeCliCallNode" /\ pc = "returned"

\* C6: with context.args present makeCliCallNode returns a call of the
\* wrapper function with exactly one argument, the array literal of the args
\* as string literals in order; with context.args absent the call has no
\* arguments.
C6_CliCallArguments ==
  CliCallReturned =>
    /\ out.status = "returned"
    /\ out.value.kind = "CallExpression"
    /\ out.value.expression = createIdentifier(cliName)
    /\ context.hasArgs =>
         /\ Len(out.value.arguments) = 1
         /\ out.value.arguments[1].kind = "ArrayLiteralExpression"
         /\ out.value.arguments[1].elements =
              [i \in 1..Len(context.args) |-> createStringLiteral(context.args[i])]
    /\ ~context.hasArgs => out.value.arguments = <<>>

====
